---- MODULE Spec2Model ----
(***************************************************************************)
(* Authentication-integrity core of the NestJS template: the refresh-token *)
(* ledger, the per-request user session guard, the OTP authority and the   *)
(* two-factor enrollment of AuthService, as state machines over the shared *)
(* persistent stores.                                                      *)
(*                                                                         *)
(* Time is counted in seconds.  A handler is one atomic action in Spec and *)
(* SpecOtp (completed, non-overlapping calls); SpecConc splits             *)
(* createRefreshToken at its await points.                                 *)
(***************************************************************************)
EXTENDS Integers, Sequences, FiniteSets, TLC

VARIABLES
    now,            \* the wall clock (new Date()), in seconds
    users,          \* the user store: a set of User records
    refreshTokens,  \* the refresh-token store: a set of RefreshToken records
    otps,           \* the Otp store: Otp records in creation order
    nextSecret,     \* the next secret speakeasy.generateSecret draws
    calls,          \* per caller: the createRefreshToken call in flight (SpecConc)
    permissions,    \* the permission table: a set of permission rows
    result          \* what the last completed handler returned or threw

vars == <<now, users, refreshTokens, otps, nextSecret, calls, permissions, result>>

----------------------------------------------------------------------------
(* Bounds of the model *)

\* token values callers may present are 1..NumTokens
NumTokens == 2
\* the ledger clock advances at most MaxLedgerTicks times
MaxLedgerTicks == 2

\* speakeasy.generateSecret is called at most MaxSecrets times
MaxSecrets == 2
\* the OTP clock advances by OtpTickSeconds up to MaxOtpSeconds
OtpTickSeconds == 100
MaxOtpSeconds == 400

UserIds == {"u1", "u2"}
TokenValues == 1..NumTokens
Callers == {"c1", "c2"}

----------------------------------------------------------------------------
(* Configuration *)

SecondsPerDay == 86400
\* tokenConfig.refreshExpiration: parseInt('7d'.replace('d', ''), 10)
RefreshExpirationDays == 7
\* mutant: an expiration of three minutes, which ends before 200 s
OtpExpirationThreeMinutes == 5 - 2

\* otpConfig.expiration (minutes), otpConfig.step (seconds), otpConfig.digits
OtpExpirationMinutes == 5
OtpStep == 30
OtpDigits == 6
\* speakeasy.totp.verify is called without a window option: its default, 0
TotpWindow == 0

----------------------------------------------------------------------------
(* Values *)

\* the null a repository lookup returns on a miss
Null == [kind |-> "null"]

\* the User aggregate as this core reads and writes it
NewUser(id) ==
    [kind |-> "user", id |-> id, isActive |-> TRUE, otpEnabled |-> FALSE, otpSecret |-> 0]

\* new RefreshToken(userId, token, expirationDays): expiresAt = now + days
NewRefreshToken(userId, token, days, t) ==
    [kind |-> "refreshToken", userId |-> userId, token |-> token,
     expiresAt |-> t + days * SecondsPerDay, revoked |-> FALSE]

\* RefreshToken.isExpired(): new Date() > expiresAt
IsExpired(rec, t) == t > rec.expiresAt

\* RefreshToken.isRevoked()
IsRevoked(rt) == rt.revoked

\* RefreshToken.revoke()
Revoke(rt) == [rt EXCEPT !.revoked = TRUE]

----------------------------------------------------------------------------
(* Stores *)

\* userRepository.findById(id)
FindUserById(store, id) ==
    IF \E u \in store : u.id = id THEN CHOOSE u \in store : u.id = id ELSE Null

\* refreshTokenRepository.findByToken(token) on a given store content
FindByToken(store, token) ==
    IF \E r \in store : r.token = token
    THEN CHOOSE r \in store : r.token = token
    ELSE Null

\* refreshTokenRepository.deleteByUserId(userId)
DeleteByUserId(store, userId) == {r \in store : r.userId # userId}

\* refreshTokenRepository.create(rt): the token value is unique in the store,
\* an insert of a value already present is rejected by the store
CanInsert(store, rt) == \A r \in store : r.token # rt.token

InsertToken(store, rt) == IF CanInsert(store, rt) THEN store \cup {rt} ELSE store

\* refreshTokenRepository.update(rt): replaces the record holding rt's token
UpdateToken(store, rt) == {r \in store : r.token # rt.token} \cup {rt}

----------------------------------------------------------------------------
(* Results of handlers: the call, what it returned or threw, and the      *)
(* records its store writes removed and wrote                             *)

Returned(op, arg, value, removed, written) ==
    [op |-> op, arg |-> arg, outcome |-> "ok", value |-> value,
     removed |-> removed, written |-> written]

Threw(op, arg, exception, removed, written) ==
    [op |-> op, arg |-> arg, outcome |-> exception, value |-> Null,
     removed |-> removed, written |-> written]

----------------------------------------------------------------------------
(* RefreshTokenLedger: the handlers as functions of the store             *)

\* mutant: the prior tokens are not deleted
CreateRefreshTokenStoreNoDelete(store, userId, token, t) ==
    InsertToken(store, NewRefreshToken(userId, token, RefreshExpirationDays, t))

\* mutant: the delete runs after the insert
CreateRefreshTokenStoreDeleteLast(store, userId, token, t) ==
    DeleteByUserId(InsertToken(store, NewRefreshToken(userId, token, RefreshExpirationDays, t)),
                   userId)

\* createRefreshToken: the store after deleteByUserId then create
CreateRefreshTokenStore(store, userId, token, t) ==
    InsertToken(DeleteByUserId(store, userId),
                NewRefreshToken(userId, token, RefreshExpirationDays, t))

CreateRefreshTokenResult(store, userId, token, t) ==
    LET rt == NewRefreshToken(userId, token, RefreshExpirationDays, t)
        arg == [userId |-> userId, token |-> token]
        removed == store \ DeleteByUserId(store, userId)
    IN  IF CanInsert(DeleteByUserId(store, userId), rt)
        THEN Returned("createRefreshToken", arg, rt, removed, {rt})
        ELSE Threw("createRefreshToken", arg, "StoreError", removed, {})

\* mutant: revocation is checked before expiry
ValidateRefreshTokenResultRevokedFirst(store, token, t) ==
    LET refreshToken == FindByToken(store, token)
    IN  IF refreshToken = Null
        THEN Threw("validateRefreshToken", [token |-> token], "Invalid refresh token", {}, {})
        ELSE IF IsRevoked(refreshToken)
        THEN Threw("validateRefreshToken", [token |-> token], "Refresh token has been revoked", {}, {})
        ELSE IF IsExpired(refreshToken, t)
        THEN Threw("validateRefreshToken", [token |-> token], "Refresh token has expired", {}, {})
        ELSE Returned("validateRefreshToken", [token |-> token], refreshToken, {}, {})

\* validateRefreshToken: the record, or the AuthenticationException thrown
ValidateRefreshTokenResult(store, token, t) ==
    LET refreshToken == FindByToken(store, token)
    IN  IF refreshToken = Null
        THEN Threw("validateRefreshToken", [token |-> token], "Invalid refresh token", {}, {})
        ELSE IF IsExpired(refreshToken, t)
        THEN Threw("validateRefreshToken", [token |-> token], "Refresh token has expired", {}, {})
        ELSE IF IsRevoked(refreshToken)
        THEN Threw("validateRefreshToken", [token |-> token], "Refresh token has been revoked", {}, {})
        ELSE Returned("validateRefreshToken", [token |-> token], refreshToken, {}, {})

\* mutant: the already-revoked early return is missing, the update is issued again
RevokeRefreshTokenResultAlwaysWrites(store, token) ==
    LET refreshToken == FindByToken(store, token)
    IN  IF refreshToken = Null
        THEN Threw("revokeRefreshToken", [token |-> token], "Invalid refresh token", {}, {})
        ELSE Returned("revokeRefreshToken", [token |-> token], Null, {}, {Revoke(refreshToken)})

\* revokeRefreshToken: the store it leaves
RevokeRefreshTokenStore(store, token) ==
    LET refreshToken == FindByToken(store, token)
    IN  IF refreshToken = Null THEN store
        ELSE IF IsRevoked(refreshToken) THEN store
        ELSE UpdateToken(store, Revoke(refreshToken))

RevokeRefreshTokenResult(store, token) ==
    LET refreshToken == FindByToken(store, token)
    IN  IF refreshToken = Null
        THEN Threw("revokeRefreshToken", [token |-> token], "Invalid refresh token", {}, {})
        ELSE IF IsRevoked(refreshToken)
        THEN Returned("revokeRefreshToken", [token |-> token], Null, {}, {})
        ELSE Returned("revokeRefreshToken", [token |-> token], Null, {}, {Revoke(refreshToken)})

----------------------------------------------------------------------------
(* Initial state: empty stores *)

Init ==
    /\ now = 0
    /\ users = {}
    /\ refreshTokens = {}
    /\ otps = <<>>
    /\ nextSecret = 1
    /\ calls = [c \in Callers |-> Null]
    /\ permissions = {}
    /\ result = Returned("none", Null, Null, {}, {})

----------------------------------------------------------------------------
(* The user store's other writers (registration and administration)       *)

RegisterUser(id) ==
    /\ FindUserById(users, id) = Null
    /\ users' = users \cup {NewUser(id)}
    /\ UNCHANGED <<now, refreshTokens, otps, nextSecret, calls, result, permissions>>

DeactivateUser(id) ==
    /\ FindUserById(users, id) # Null
    /\ FindUserById(users, id).isActive
    /\ users' = (users \ {FindUserById(users, id)}) \cup {[FindUserById(users, id) EXCEPT !.isActive = FALSE]}
    /\ UNCHANGED <<now, refreshTokens, otps, nextSecret, calls, result, permissions>>

DeleteUser(id) ==
    /\ FindUserById(users, id) # Null
    /\ users' = users \ {FindUserById(users, id)}
    /\ UNCHANGED <<now, refreshTokens, otps, nextSecret, calls, result, permissions>>

----------------------------------------------------------------------------
(* RefreshTokenLedger: the handlers as atomic actions                     *)

\* mutant: the user is looked up first and a missing user is an error
CreateRefreshTokenChecksUser(userId, token) ==
    /\ IF FindUserById(users, userId) = Null
       THEN /\ result' = Threw("createRefreshToken", [userId |-> userId, token |-> token],
                               "EntityNotFound", {}, {})
            /\ UNCHANGED refreshTokens
       ELSE /\ refreshTokens' = CreateRefreshTokenStore(refreshTokens, userId, token, now)
            /\ result' = CreateRefreshTokenResult(refreshTokens, userId, token, now)
    /\ UNCHANGED <<now, users, otps, nextSecret, calls, permissions>>

CreateRefreshToken(userId, token) ==
    /\ refreshTokens' = CreateRefreshTokenStore(refreshTokens, userId, token, now)
    /\ result' = CreateRefreshTokenResult(refreshTokens, userId, token, now)
    /\ UNCHANGED <<now, users, otps, nextSecret, calls, permissions>>

ValidateRefreshToken(token) ==
    /\ result' = ValidateRefreshTokenResult(refreshTokens, token, now)
    /\ UNCHANGED <<now, users, refreshTokens, otps, nextSecret, calls, permissions>>

RevokeRefreshToken(token) ==
    /\ refreshTokens' = RevokeRefreshTokenStore(refreshTokens, token)
    /\ result' = RevokeRefreshTokenResult(refreshTokens, token)
    /\ UNCHANGED <<now, users, otps, nextSecret, calls, permissions>>

\* mutant: the user-existence check is missing
RevokeAllRefreshTokensNoUserCheck(userId) ==
    /\ refreshTokens' = DeleteByUserId(refreshTokens, userId)
    /\ result' = Returned("revokeAllRefreshTokens", [userId |-> userId], Null,
                          refreshTokens \ DeleteByUserId(refreshTokens, userId), {})
    /\ UNCHANGED <<now, users, otps, nextSecret, calls, permissions>>

RevokeAllRefreshTokens(userId) ==
    /\ IF FindUserById(users, userId) = Null
       THEN /\ result' = Threw("revokeAllRefreshTokens", [userId |-> userId], "EntityNotFound", {}, {})
            /\ UNCHANGED refreshTokens
       ELSE /\ refreshTokens' = DeleteByUserId(refreshTokens, userId)
            /\ result' = Returned("revokeAllRefreshTokens", [userId |-> userId], Null,
                                 refreshTokens \ DeleteByUserId(refreshTokens, userId), {})
    /\ UNCHANGED <<now, users, otps, nextSecret, calls, permissions>>

----------------------------------------------------------------------------
(* UserSessionGuard *)

\* mutant: only the user's existence is checked
JwtValidateResultExistsOnly(store, payload) ==
    LET user == FindUserById(store, payload.sub)
    IN  IF user = Null
        THEN Threw("jwtValidate", payload, "Unauthorized", {}, {})
        ELSE Returned("jwtValidate", payload, payload, {}, {})

\* JwtStrategy.validate(payload)
JwtValidateResult(store, payload) ==
    LET user == FindUserById(store, payload.sub)
    IN  IF user = Null \/ ~user.isActive
        THEN Threw("jwtValidate", payload, "Unauthorized", {}, {})
        ELSE Returned("jwtValidate", payload, payload, {}, {})

JwtValidate(payload) ==
    /\ result' = JwtValidateResult(users, payload)
    /\ UNCHANGED <<now, users, refreshTokens, otps, nextSecret, calls, permissions>>

PayloadOf(u) == [kind |-> "payload", sub |-> u]

Payloads == {PayloadOf(u) : u \in UserIds}

----------------------------------------------------------------------------
(* The clock of the ledger: days pass *)

LedgerTick ==
    /\ now + RefreshExpirationDays * SecondsPerDay
          <= MaxLedgerTicks * RefreshExpirationDays * SecondsPerDay
    /\ now' = now + RefreshExpirationDays * SecondsPerDay
    /\ UNCHANGED <<users, refreshTokens, otps, nextSecret, calls, result, permissions>>

Next ==
    \/ \E id \in UserIds : RegisterUser(id)
    \/ \E id \in UserIds : DeactivateUser(id)
    \/ \E id \in UserIds : DeleteUser(id)
    \/ \E u \in UserIds, t \in TokenValues : CreateRefreshToken(u, t)
    \/ \E t \in TokenValues : ValidateRefreshToken(t)
    \/ \E t \in TokenValues : RevokeRefreshToken(t)
    \/ \E u \in UserIds : RevokeAllRefreshTokens(u)
    \/ \E p \in Payloads : JwtValidate(p)
    \/ LedgerTick

Spec == Init /\ [][Next]_vars

----------------------------------------------------------------------------
(* createRefreshToken with its two store calls as separate steps          *)

\* the call runs to its first await: deleteByUserId takes effect
ConcDeleteByUserId(c, userId, token) ==
    /\ calls[c] = Null
    /\ refreshTokens' = DeleteByUserId(refreshTokens, userId)
    /\ calls' = [calls EXCEPT ![c] = [kind |-> "call", userId |-> userId, token |-> token,
                                     removed |-> refreshTokens \ DeleteByUserId(refreshTokens, userId)]]
    /\ UNCHANGED <<now, users, otps, nextSecret, result, permissions>>

\* the call resumes: the new RefreshToken is built and create takes effect
ConcCreate(c) ==
    /\ calls[c] # Null
    /\ LET rt == NewRefreshToken(calls[c].userId, calls[c].token, RefreshExpirationDays, now)
           arg == [userId |-> calls[c].userId, token |-> calls[c].token]
       IN  /\ refreshTokens' = InsertToken(refreshTokens, rt)
           /\ result' = IF CanInsert(refreshTokens, rt)
                        THEN Returned("createRefreshToken", arg, rt, calls[c].removed, {rt})
                        ELSE Threw("createRefreshToken", arg, "StoreError", calls[c].removed, {})
    /\ calls' = [calls EXCEPT ![c] = Null]
    /\ UNCHANGED <<now, users, otps, nextSecret, permissions>>

NextConc ==
    \/ \E c \in Callers, u \in UserIds, t \in TokenValues : ConcDeleteByUserId(c, u, t)
    \/ \E c \in Callers : ConcCreate(c)

SpecConc == Init /\ [][NextConc]_vars

----------------------------------------------------------------------------
(* Time-based one-time passwords (speakeasy)                              *)

\* the TOTP counter of a time: floor(unixTime / step)
Counter(t) == t \div OtpStep

\* the HOTP value of a secret and a counter, truncated to digits; HMAC-SHA1 is
\* taken as collision free: two codes are equal only for the same secret,
\* counter and length
Hotp(secret, counter, digits) ==
    [kind |-> "code", secret |-> secret, counter |-> counter, digits |-> digits]

\* speakeasy.totp({secret, step, digits}) at time t
Totp(secret, t) == Hotp(secret, Counter(t), OtpDigits)

\* mutant: the code is computed over the previous time step
TotpPreviousStep(secret, t) == Hotp(secret, Counter(t) - 1, OtpDigits)

\* the code generateOtp returns for the secret it stored: speakeasy.totp
GenerateOtpCode(secret, t) == Totp(secret, t)

\* speakeasy.totp.verify({secret, token, step, digits}) at time t: the token
\* equals the code of a counter within the window around the current one
TotpVerify(secret, token, t) ==
    \E c \in (Counter(t) - TotpWindow)..(Counter(t) + TotpWindow) :
        token = Hotp(secret, c, OtpDigits)

\* new Otp(userId, secret, expirationMinutes): expiresAt = now + minutes
NewOtp(userId, secret, minutes, t) ==
    [kind |-> "otp", userId |-> userId, secret |-> secret, createdAt |-> t,
     expiresAt |-> t + minutes * 60, verified |-> FALSE]

\* Otp.markAsVerified()
MarkAsVerified(otp) == [otp EXCEPT !.verified = TRUE]

\* otpRepository.findByUserId(userId): the position of the user's most recently
\* created Otp, 0 when the user has none
OtpIndexByUserId(store, userId) ==
    IF \E i \in 1..Len(store) : store[i].userId = userId
    THEN CHOOSE i \in 1..Len(store) :
            /\ store[i].userId = userId
            /\ \A j \in (i + 1)..Len(store) : store[j].userId # userId
    ELSE 0

FindOtpByUserId(store, userId) ==
    IF OtpIndexByUserId(store, userId) = 0 THEN Null
    ELSE store[OtpIndexByUserId(store, userId)]

\* User.enableOtp(secret) and User.disableOtp()
EnableOtp(user, secret) == [user EXCEPT !.otpEnabled = TRUE, !.otpSecret = secret]

DisableOtp(user) == [user EXCEPT !.otpEnabled = FALSE, !.otpSecret = 0]

\* userRepository.update(user)
UpdateUser(store, user) == {u \in store : u.id # user.id} \cup {user}

\* the codes a caller may present
MaxCounter == MaxOtpSeconds \div OtpStep + 1

Codes == {Hotp(s, c, OtpDigits) : s \in 1..MaxSecrets, c \in 0..MaxCounter}

----------------------------------------------------------------------------
(* OtpAuthority *)

GenerateOtp(userId) ==
    /\ nextSecret <= MaxSecrets
    /\ LET user == FindUserById(users, userId)
           secret == nextSecret
           otp == NewOtp(userId, secret, OtpExpirationMinutes, now)
       IN  IF user = Null
           THEN /\ result' = Threw("generateOtp", [userId |-> userId], "EntityNotFound", {}, {})
                /\ UNCHANGED <<otps, nextSecret>>
           ELSE /\ nextSecret' = nextSecret + 1
                /\ otps' = Append(otps, otp)
                /\ result' = Returned("generateOtp", [userId |-> userId],
                                      GenerateOtpCode(secret, now), {}, {otp})
    /\ UNCHANGED <<now, users, refreshTokens, calls, permissions>>

\* mutant: the expiry check is missing
VerifyOtpResultNoExpiryCheck(userStore, otpStore, userId, token, t) ==
    LET user == FindUserById(userStore, userId)
        otp == FindOtpByUserId(otpStore, userId)
        arg == [userId |-> userId]
    IN  IF user = Null THEN Threw("verifyOtp", arg, "EntityNotFound", {}, {})
        ELSE IF otp = Null THEN Threw("verifyOtp", arg, "EntityNotFound", {}, {})
        ELSE IF TotpVerify(otp.secret, token, t)
        THEN Returned("verifyOtp", arg, Null, {}, {MarkAsVerified(otp)})
        ELSE Threw("verifyOtp", arg, "OtpInvalid", {}, {})

\* verifyOtp: what it returns or throws
VerifyOtpResult(userStore, otpStore, userId, token, t) ==
    LET user == FindUserById(userStore, userId)
        otp == FindOtpByUserId(otpStore, userId)
        arg == [userId |-> userId]
    IN  IF user = Null THEN Threw("verifyOtp", arg, "EntityNotFound", {}, {})
        ELSE IF otp = Null THEN Threw("verifyOtp", arg, "EntityNotFound", {}, {})
        ELSE IF IsExpired(otp, t) THEN Threw("verifyOtp", arg, "OtpExpired", {}, {})
        ELSE IF TotpVerify(otp.secret, token, t)
        THEN Returned("verifyOtp", arg, Null, {}, {MarkAsVerified(otp)})
        ELSE Threw("verifyOtp", arg, "OtpInvalid", {}, {})

\* mutant: the Otp is marked verified and saved whatever the check said
VerifyOtpStoreAlwaysUpdates(userStore, otpStore, userId, token, t) ==
    IF /\ FindUserById(userStore, userId) # Null
       /\ FindOtpByUserId(otpStore, userId) # Null
    THEN [otpStore EXCEPT ![OtpIndexByUserId(otpStore, userId)] =
              MarkAsVerified(otpStore[OtpIndexByUserId(otpStore, userId)])]
    ELSE otpStore

\* verifyOtp: the Otp store it leaves (otpRepository.update on a match)
VerifyOtpStore(userStore, otpStore, userId, token, t) ==
    IF VerifyOtpResult(userStore, otpStore, userId, token, t).outcome = "ok"
    THEN [otpStore EXCEPT ![OtpIndexByUserId(otpStore, userId)] =
              MarkAsVerified(otpStore[OtpIndexByUserId(otpStore, userId)])]
    ELSE otpStore

VerifyOtp(userId, token) ==
    /\ result' = VerifyOtpResult(users, otps, userId, token, now)
    /\ otps' = VerifyOtpStore(users, otps, userId, token, now)
    /\ UNCHANGED <<now, users, refreshTokens, nextSecret, calls, permissions>>

----------------------------------------------------------------------------
(* TwoFactorEnrollment *)

\* mutant: the user carrying the new secret is not persisted
SetupTwoFactorAuthNoUpdate(userId) ==
    /\ nextSecret <= MaxSecrets
    /\ LET user == FindUserById(users, userId)
           secret == nextSecret
       IN  IF user = Null
           THEN /\ result' = Threw("setupTwoFactorAuth", [userId |-> userId],
                                   "EntityNotFound", {}, {})
                /\ UNCHANGED <<users, nextSecret>>
           ELSE /\ nextSecret' = nextSecret + 1
                /\ users' = users
                /\ result' = Returned("setupTwoFactorAuth", [userId |-> userId],
                                      [kind |-> "enrollment", secret |-> secret],
                                      {}, {})
    /\ UNCHANGED <<now, refreshTokens, otps, calls, permissions>>

SetupTwoFactorAuth(userId) ==
    /\ nextSecret <= MaxSecrets
    /\ LET user == FindUserById(users, userId)
           secret == nextSecret
       IN  IF user = Null
           THEN /\ result' = Threw("setupTwoFactorAuth", [userId |-> userId],
                                   "EntityNotFound", {}, {})
                /\ UNCHANGED <<users, nextSecret>>
           ELSE /\ nextSecret' = nextSecret + 1
                /\ users' = UpdateUser(users, EnableOtp(user, secret))
                /\ result' = Returned("setupTwoFactorAuth", [userId |-> userId],
                                      [kind |-> "enrollment", secret |-> secret],
                                      {}, {EnableOtp(user, secret)})
    /\ UNCHANGED <<now, refreshTokens, otps, calls, permissions>>

\* mutant: the enabled check is missing
VerifyTwoFactorTokenResultNoEnabledCheck(userStore, userId, token, t) ==
    LET user == FindUserById(userStore, userId)
        arg == [userId |-> userId]
    IN  IF user = Null THEN Threw("verifyTwoFactorToken", arg, "EntityNotFound", {}, {})
        ELSE IF ~TotpVerify(user.otpSecret, token, t)
        THEN Threw("verifyTwoFactorToken", arg, "OtpInvalid", {}, {})
        ELSE Returned("verifyTwoFactorToken", arg, Null, {}, {})

\* verifyTwoFactorToken: what it returns or throws
VerifyTwoFactorTokenResult(userStore, userId, token, t) ==
    LET user == FindUserById(userStore, userId)
        arg == [userId |-> userId]
    IN  IF user = Null THEN Threw("verifyTwoFactorToken", arg, "EntityNotFound", {}, {})
        ELSE IF ~user.otpEnabled \/ user.otpSecret = 0
        THEN Threw("verifyTwoFactorToken", arg,
                   "Two-factor authentication is not enabled for this user", {}, {})
        ELSE IF ~TotpVerify(user.otpSecret, token, t)
        THEN Threw("verifyTwoFactorToken", arg, "OtpInvalid", {}, {})
        ELSE Returned("verifyTwoFactorToken", arg, Null, {}, {})

VerifyTwoFactorToken(userId, token) ==
    /\ result' = VerifyTwoFactorTokenResult(users, userId, token, now)
    /\ UNCHANGED <<now, users, refreshTokens, otps, nextSecret, calls, permissions>>

DisableTwoFactorAuth(userId) ==
    /\ LET user == FindUserById(users, userId)
       IN  IF user = Null
           THEN /\ result' = Threw("disableTwoFactorAuth", [userId |-> userId],
                                   "EntityNotFound", {}, {})
                /\ UNCHANGED users
           ELSE /\ users' = UpdateUser(users, DisableOtp(user))
                /\ result' = Returned("disableTwoFactorAuth", [userId |-> userId],
                                      DisableOtp(user), {}, {DisableOtp(user)})
    /\ UNCHANGED <<now, refreshTokens, otps, nextSecret, calls, permissions>>

\* the clock of the OTP flows: seconds pass
OtpTick ==
    /\ now + OtpTickSeconds <= MaxOtpSeconds
    /\ now' = now + OtpTickSeconds
    /\ UNCHANGED <<users, refreshTokens, otps, nextSecret, calls, result, permissions>>

NextOtp ==
    \/ \E id \in UserIds : RegisterUser(id)
    \/ \E u \in UserIds : GenerateOtp(u)
    \/ \E u \in UserIds, tok \in Codes : VerifyOtp(u, tok)
    \/ OtpTick

SpecOtp == Init /\ [][NextOtp]_vars

NextTwoFactor ==
    \/ \E id \in UserIds : RegisterUser(id)
    \/ \E u \in UserIds : SetupTwoFactorAuth(u)
    \/ \E u \in UserIds, tok \in Codes : VerifyTwoFactorToken(u, tok)
    \/ \E u \in UserIds : DisableTwoFactorAuth(u)
    \/ OtpTick

SpecTwoFactor == Init /\ [][NextTwoFactor]_vars

----------------------------------------------------------------------------
(* generateOtp with its store call and its return as separate steps       *)

\* mutant: the Otp is built but never saved
ConcGenerateCreateNoSave(c, userId) ==
    /\ calls[c] = Null
    /\ nextSecret <= MaxSecrets
    /\ IF FindUserById(users, userId) = Null
       THEN /\ result' = Threw("generateOtp", [userId |-> userId], "EntityNotFound", {}, {})
            /\ UNCHANGED <<otps, nextSecret, calls>>
       ELSE /\ nextSecret' = nextSecret + 1
            /\ otps' = otps
            /\ calls' = [calls EXCEPT ![c] = [kind |-> "generateOtp", userId |-> userId,
                                             secret |-> nextSecret,
                                             otp |-> NewOtp(userId, nextSecret,
                                                            OtpExpirationMinutes, now)]]
            /\ UNCHANGED result
    /\ UNCHANGED <<now, users, refreshTokens, permissions>>

\* the call runs to the await of otpRepository.create: the user is looked up,
\* the secret drawn, the Otp built, and create takes effect
ConcGenerateCreate(c, userId) ==
    /\ calls[c] = Null
    /\ nextSecret <= MaxSecrets
    /\ IF FindUserById(users, userId) = Null
       THEN /\ result' = Threw("generateOtp", [userId |-> userId], "EntityNotFound", {}, {})
            /\ UNCHANGED <<otps, nextSecret, calls>>
       ELSE /\ nextSecret' = nextSecret + 1
            /\ otps' = Append(otps, NewOtp(userId, nextSecret, OtpExpirationMinutes, now))
            /\ calls' = [calls EXCEPT ![c] = [kind |-> "generateOtp", userId |-> userId,
                                             secret |-> nextSecret,
                                             otp |-> NewOtp(userId, nextSecret,
                                                            OtpExpirationMinutes, now)]]
            /\ UNCHANGED result
    /\ UNCHANGED <<now, users, refreshTokens, permissions>>

\* the call resumes: the code of its own secret is computed at the time of the
\* return
ConcGenerateReturn(c) ==
    /\ calls[c] # Null
    /\ result' = Returned("generateOtp", [userId |-> calls[c].userId],
                          GenerateOtpCode(calls[c].secret, now), {}, {calls[c].otp})
    /\ calls' = [calls EXCEPT ![c] = Null]
    /\ UNCHANGED <<now, users, refreshTokens, otps, nextSecret, permissions>>

\* the codes of the current time step, one per secret
CurrentCodes(t) == {Totp(secret, t) : secret \in 1..MaxSecrets}

NextOtpConc ==
    \/ \E id \in UserIds : RegisterUser(id)
    \/ \E c \in Callers, u \in UserIds : ConcGenerateCreate(c, u)
    \/ \E c \in Callers : ConcGenerateReturn(c)
    \/ \E u \in UserIds, tok \in CurrentCodes(now) : VerifyOtp(u, tok)
    \/ OtpTick

SpecOtpConc == Init /\ [][NextOtpConc]_vars

----------------------------------------------------------------------------
(* PermissionCatalog: PermissionRepository over the permission table      *)

\* permission ids are 1..NumPermIds
NumPermIds == 2
PermIds == 1..NumPermIds
PermNames == {"user:read", "user:write"}
PermDescriptions == {"d1", "d2"}
PermResources == {"user", "role"}
PermActions == {"read"}

True == [kind |-> "boolean", b |-> TRUE]
False == [kind |-> "boolean", b |-> FALSE]

\* new Permission(name, description, resource, action): the id is the entity's
\* own fresh one (0 here) until the caller or mapToModel sets it
NewPermission(name, description, resource, action) ==
    [kind |-> "permission", id |-> 0, name |-> name, description |-> description,
     resource |-> resource, action |-> action, createdAt |-> 0, updatedAt |-> 0]

\* the Permission entities callers pass to create and update
PermissionInputs ==
    {[NewPermission(n, d, r, a) EXCEPT !.id = i] :
        i \in PermIds, n \in PermNames, d \in PermDescriptions,
        r \in PermResources, a \in PermActions}

\* the row prisma writes for an entity (data: id, name, description, resource, action)
RowOf(permission, createdAt, updatedAt) ==
    [id |-> permission.id, name |-> permission.name,
     description |-> permission.description, resource |-> permission.resource,
     action |-> permission.action, createdAt |-> createdAt, updatedAt |-> updatedAt]

\* prisma.permission.findUnique({ where: { id } })
FindUniqueById(table, id) ==
    IF \E r \in table : r.id = id THEN CHOOSE r \in table : r.id = id ELSE Null

\* prisma.permission.findUnique({ where: { name } })
FindUniqueByName(table, name) ==
    IF \E r \in table : r.name = name THEN CHOOSE r \in table : r.name = name ELSE Null

\* mutant: the id of the row is not copied to the entity
MapToModelFreshId(record) ==
    [NewPermission(record.name, record.description, record.resource, record.action)
        EXCEPT !.createdAt = record.createdAt, !.updatedAt = record.updatedAt]

MapToModel(record) ==
    [NewPermission(record.name, record.description, record.resource, record.action)
        EXCEPT !.id = record.id, !.createdAt = record.createdAt,
               !.updatedAt = record.updatedAt]

FindByIdResult(table, id) ==
    LET permissionRecord == FindUniqueById(table, id)
    IN  IF permissionRecord = Null
        THEN Returned("findById", [id |-> id], Null, {}, {})
        ELSE Returned("findById", [id |-> id], MapToModel(permissionRecord), {}, {})

FindByNameResult(table, name) ==
    LET permissionRecord == FindUniqueByName(table, name)
    IN  IF permissionRecord = Null
        THEN Returned("findByName", [name |-> name], Null, {}, {})
        ELSE Returned("findByName", [name |-> name], MapToModel(permissionRecord), {}, {})

FindAllResult(table) ==
    Returned("findAll", Null, [kind |-> "list", items |-> {MapToModel(r) : r \in table}],
             {}, {})

FindByResourceResult(table, resource) ==
    Returned("findByResource", [resource |-> resource],
             [kind |-> "list",
              items |-> {MapToModel(r) : r \in {x \in table : x.resource = resource}}],
             {}, {})


\* prisma.permission.create: the primary key and the unique name admit one row each
CreateConflict(table, permission) ==
    \E r \in table : r.id = permission.id \/ r.name = permission.name

\* mutant: the table has no unique constraint on name
CreateStoreNoUniqueName(table, permission, t) ==
    IF \E r \in table : r.id = permission.id
    THEN table
    ELSE table \cup {RowOf(permission, t, t)}

\* create: the table it leaves
CreateStore(table, permission, t) ==
    IF CreateConflict(table, permission)
    THEN table
    ELSE table \cup {RowOf(permission, t, t)}

\* create: what it returns or throws (a prisma error is not caught)
CreateResult(table, permission, t) ==
    IF CreateConflict(table, permission)
    THEN Threw("create", [permission |-> permission], "UniqueConstraintViolation", {}, {})
    ELSE Returned("create", [permission |-> permission],
                  MapToModel(RowOf(permission, t, t)), {}, {RowOf(permission, t, t)})

\* prisma.permission.update({ where: { id }, data }): the outcome of the statement
UpdateOutcome(table, permission) ==
    IF FindUniqueById(table, permission.id) = Null THEN "RecordNotFound"
    ELSE IF \E r \in table : r.id # permission.id /\ r.name = permission.name
    THEN "UniqueConstraintViolation"
    ELSE "ok"

\* the row update writes: the data fields replaced, createdAt kept
UpdatedRow(table, permission, t) ==
    RowOf(permission, FindUniqueById(table, permission.id).createdAt, t)

\* update: the table it leaves
UpdateStore(table, permission, t) ==
    IF UpdateOutcome(table, permission) = "ok"
    THEN (table \ {FindUniqueById(table, permission.id)})
            \cup {UpdatedRow(table, permission, t)}
    ELSE table

\* update: what it returns or throws (a prisma error is not caught)
UpdateResult(table, permission, t) ==
    IF UpdateOutcome(table, permission) = "ok"
    THEN Returned("update", [permission |-> permission],
                  MapToModel(UpdatedRow(table, permission, t)),
                  {FindUniqueById(table, permission.id)},
                  {UpdatedRow(table, permission, t)})
    ELSE Threw("update", [permission |-> permission], UpdateOutcome(table, permission),
               {}, {})

\* prisma.permission.delete({ where: { id } }): the outcome of the statement
DeleteOutcome(table, id) ==
    IF FindUniqueById(table, id) = Null THEN "RecordNotFound" ELSE "ok"

\* delete: the table it leaves
DeleteStore(table, id) == {r \in table : r.id # id}

\* mutant: no try/catch around the statement
DeleteResultNoCatch(table, id) ==
    IF DeleteOutcome(table, id) = "ok"
    THEN Returned("delete", [id |-> id], True, table \ DeleteStore(table, id), {})
    ELSE Threw("delete", [id |-> id], DeleteOutcome(table, id), {}, {})

\* delete: true when the statement succeeded, false when it threw
DeleteResult(table, id) ==
    IF DeleteOutcome(table, id) = "ok"
    THEN Returned("delete", [id |-> id], True, table \ DeleteStore(table, id), {})
    ELSE Returned("delete", [id |-> id], False, {}, {})

----------------------------------------------------------------------------
(* PermissionCatalog: the methods as atomic actions                       *)

PermissionFindById(id) ==
    /\ result' = FindByIdResult(permissions, id)
    /\ UNCHANGED <<now, users, refreshTokens, otps, nextSecret, calls, permissions>>

PermissionFindByName(name) ==
    /\ result' = FindByNameResult(permissions, name)
    /\ UNCHANGED <<now, users, refreshTokens, otps, nextSecret, calls, permissions>>

PermissionFindAll ==
    /\ result' = FindAllResult(permissions)
    /\ UNCHANGED <<now, users, refreshTokens, otps, nextSecret, calls, permissions>>

PermissionFindByResource(resource) ==
    /\ result' = FindByResourceResult(permissions, resource)
    /\ UNCHANGED <<now, users, refreshTokens, otps, nextSecret, calls, permissions>>

PermissionCreate(permission) ==
    /\ permissions' = CreateStore(permissions, permission, now)
    /\ result' = CreateResult(permissions, permission, now)
    /\ UNCHANGED <<now, users, refreshTokens, otps, nextSecret, calls>>

PermissionUpdate(permission) ==
    /\ permissions' = UpdateStore(permissions, permission, now)
    /\ result' = UpdateResult(permissions, permission, now)
    /\ UNCHANGED <<now, users, refreshTokens, otps, nextSecret, calls>>

PermissionDelete(id) ==
    /\ permissions' = DeleteStore(permissions, id)
    /\ result' = DeleteResult(permissions, id)
    /\ UNCHANGED <<now, users, refreshTokens, otps, nextSecret, calls>>

NextPerm ==
    \/ \E id \in PermIds : PermissionFindById(id)
    \/ \E name \in PermNames : PermissionFindByName(name)
    \/ PermissionFindAll
    \/ \E resource \in PermResources : PermissionFindByResource(resource)
    \/ \E permission \in PermissionInputs : PermissionCreate(permission)
    \/ \E permission \in PermissionInputs : PermissionUpdate(permission)
    \/ \E id \in PermIds : PermissionDelete(id)

SpecPerm == Init /\ [][NextPerm]_vars

----------------------------------------------------------------------------
(* Properties of the refresh-token ledger                                 *)

TokensOf(store, userId) == {r \in store : r.userId = userId}

Outcome(store, token, t) == ValidateRefreshTokenResult(store, token, t).outcome

\* C1: after any sequence of completed, non-overlapping ledger calls every user
\* owns at most one RefreshToken record.
C1_AtMostOneTokenPerUser ==
    \A u \in UserIds : Cardinality(TokensOf(refreshTokens, u)) <= 1

\* a createRefreshToken replaced the user's prior token while the other user
\* holds a token too
C1_Witness ==
    /\ result.op = "createRefreshToken"
    /\ result.outcome = "ok"
    /\ result.removed # {}
    /\ \A u \in UserIds : TokensOf(refreshTokens, u) # {}

\* C2: with deleteByUserId and create of two concurrent createRefreshToken calls
\* interleaving, every user still owns at most one RefreshToken record, also
\* once both calls have returned.
C2_SingleTokenUnderConcurrency ==
    \A u \in UserIds :
        \A r1, r2 \in TokensOf(refreshTokens, u) : r1 = r2

\* C3: when createRefreshToken(u, t2) completes, validateRefreshToken of any other
\* token u held fails as invalid and validateRefreshToken(t2) returns the t2
\* record; a token that is invalid stays invalid until createRefreshToken stores
\* it again.
C3_NewLoginSupersedes ==
    [][ /\ \A u \in UserIds, t2 \in TokenValues :
              (CreateRefreshToken(u, t2) /\ result'.outcome = "ok") =>
                  /\ \A r \in TokensOf(refreshTokens, u) :
                        r.token # t2 =>
                            Outcome(refreshTokens', r.token, now') = "Invalid refresh token"
                  /\ ValidateRefreshTokenResult(refreshTokens', t2, now')
                        = Returned("validateRefreshToken", [token |-> t2],
                                   NewRefreshToken(u, t2, RefreshExpirationDays, now), {}, {})
        /\ \A t \in TokenValues :
              (/\ Outcome(refreshTokens, t, now) = "Invalid refresh token"
               /\ Outcome(refreshTokens', t, now') # "Invalid refresh token")
                  => \E u \in UserIds : CreateRefreshToken(u, t)
      ]_vars

\* a second createRefreshToken for a user replaced a token of another value
C3_Witness ==
    /\ result.op = "createRefreshToken"
    /\ result.outcome = "ok"
    /\ \E r \in result.removed : r.token # result.arg.token
    /\ result.value \in refreshTokens

\* C4: revokeAllRefreshTokens(u) for an existing user removes every token u owns,
\* so that each then validates as invalid, and leaves the other users' tokens as
\* they were; for a missing user it throws EntityNotFound and the store is
\* unchanged.
C4_RevokeAll ==
    [][ \A u \in UserIds :
          RevokeAllRefreshTokens(u) =>
              IF FindUserById(users, u) # Null
              THEN /\ result'.outcome = "ok"
                   /\ TokensOf(refreshTokens', u) = {}
                   /\ \A r \in TokensOf(refreshTokens, u) :
                         Outcome(refreshTokens', r.token, now') = "Invalid refresh token"
                   /\ \A v \in UserIds \ {u} :
                         TokensOf(refreshTokens', v) = TokensOf(refreshTokens, v)
              ELSE /\ result'.outcome = "EntityNotFound"
                   /\ refreshTokens' = refreshTokens
      ]_vars

\* revokeAllRefreshTokens removed a user's token and another user's token remains
C4_Witness ==
    /\ result.op = "revokeAllRefreshTokens"
    /\ result.outcome = "ok"
    /\ result.removed # {}
    /\ refreshTokens # {}

\* C5: revokeRefreshToken on a stored non-revoked token sets revoked and writes
\* that record; on an already revoked token it succeeds and writes nothing; a
\* second call after any successful call leaves the store as the first left it;
\* on an unknown token it throws invalid and changes nothing.
C5_RevokeIdempotent ==
    [][ \A t \in TokenValues :
          RevokeRefreshToken(t) =>
              LET r == FindByToken(refreshTokens, t)
              IN  IF r = Null
                  THEN /\ result'.outcome = "Invalid refresh token"
                       /\ result'.written = {}
                       /\ refreshTokens' = refreshTokens
                  ELSE /\ result'.outcome = "ok"
                       /\ IF r.revoked
                          THEN result'.written = {} /\ refreshTokens' = refreshTokens
                          ELSE /\ result'.written = {[r EXCEPT !.revoked = TRUE]}
                               /\ refreshTokens' = (refreshTokens \ {r})
                                                      \cup {[r EXCEPT !.revoked = TRUE]}
                       /\ RevokeRefreshTokenStore(refreshTokens', t) = refreshTokens'
                       /\ RevokeRefreshTokenResult(refreshTokens', t).outcome = "ok"
                       /\ RevokeRefreshTokenResult(refreshTokens', t).written = {}
      ]_vars

\* a revokeRefreshToken on an already revoked token returned without a write
C5_Witness ==
    /\ result.op = "revokeRefreshToken"
    /\ result.outcome = "ok"
    /\ result.written = {}
    /\ FindByToken(refreshTokens, result.arg.token) # Null
    /\ FindByToken(refreshTokens, result.arg.token).revoked

\* C6: validateRefreshToken(t) returns the record holding t only if it exists, is
\* not past expiry and is not revoked; it throws invalid when no record matches,
\* expired when past expiry (also when revoked), revoked otherwise when the flag
\* is set; the store is unchanged.
C6_ValidateOutcomes ==
    [][ \A t \in TokenValues :
          ValidateRefreshToken(t) =>
              /\ refreshTokens' = refreshTokens
              /\ result'.written = {} /\ result'.removed = {}
              /\ IF \A r \in refreshTokens : r.token # t
                 THEN result'.outcome = "Invalid refresh token"
                 ELSE \A r \in refreshTokens :
                        r.token = t =>
                            IF now > r.expiresAt
                            THEN result'.outcome = "Refresh token has expired"
                            ELSE IF r.revoked
                            THEN result'.outcome = "Refresh token has been revoked"
                            ELSE result'.outcome = "ok" /\ result'.value = r
      ]_vars

\* validateRefreshToken reported expired for a token that is also revoked
C6_Witness ==
    /\ result.op = "validateRefreshToken"
    /\ result.outcome = "Refresh token has expired"
    /\ FindByToken(refreshTokens, result.arg.token) # Null
    /\ FindByToken(refreshTokens, result.arg.token).revoked

\* C7: JwtStrategy.validate returns the payload unchanged when the user named by
\* the subject exists and is active and throws Unauthorized otherwise; after a
\* user is deactivated or deleted, and as long as the user is absent or
\* inactive, a validation of that subject throws Unauthorized.
C7_SessionGuard ==
    /\ [](\A u \in UserIds :
            (FindUserById(users, u) = Null \/ ~FindUserById(users, u).isActive)
                => JwtValidateResult(users, PayloadOf(u)).outcome = "Unauthorized")
    /\ [][ /\ \A p \in Payloads :
                JwtValidate(p) =>
                    IF \E x \in users : x.id = p.sub /\ x.isActive
                    THEN result'.outcome = "ok" /\ result'.value = p
                    ELSE result'.outcome = "Unauthorized"
           /\ \A u \in UserIds :
                (DeactivateUser(u) \/ DeleteUser(u)) =>
                    JwtValidateResult(users', PayloadOf(u)).outcome = "Unauthorized"
         ]_vars

\* a validation was refused for a user who exists and has been deactivated
C7_Witness ==
    /\ result.op = "jwtValidate"
    /\ result.outcome = "Unauthorized"
    /\ FindUserById(users, result.arg.sub) # Null
    /\ ~FindUserById(users, result.arg.sub).isActive

----------------------------------------------------------------------------
(* Properties of the OTP authority                                        *)

OtpsOf(store, userId) == {i \in 1..Len(store) : store[i].userId = userId}

\* C8: when generateOtp(u) has returned a code for an existing user, whatever
\* Otp records the store already held, verifyOtp(u, code) at that same time
\* succeeds and marks the Otp just created as verified.
C8_GenerateThenVerify ==
    [][ \A u \in UserIds :
          (GenerateOtp(u) /\ result'.outcome = "ok") =>
              /\ VerifyOtpResult(users', otps', u, result'.value, now').outcome = "ok"
              /\ LET after == VerifyOtpStore(users', otps', u, result'.value, now')
                 IN  /\ Len(after) = Len(otps) + 1
                     /\ after[Len(after)] = MarkAsVerified(otps'[Len(otps')])
                     /\ after[Len(after)].userId = u
                     /\ FindOtpByUserId(after, u) = after[Len(after)]
                     /\ \A i \in 1..Len(otps) : after[i] = otps[i]
      ]_vars

\* verifyOtp succeeded on an Otp generated at this very time for a user who had
\* an earlier Otp
C8_Witness ==
    /\ result.op = "verifyOtp"
    /\ result.outcome = "ok"
    /\ Cardinality(OtpsOf(otps, result.arg.userId)) >= 2
    /\ FindOtpByUserId(otps, result.arg.userId).createdAt = now
    /\ FindOtpByUserId(otps, result.arg.userId).verified
    /\ \E i \in OtpsOf(otps, result.arg.userId) : ~otps[i].verified

\* C9: a verifyOtp succeeds only against an Otp that is not yet verified, so
\* that no Otp is verified twice and a code that verified once does not verify
\* again against the same Otp.
C9_VerifiedExactlyOnce ==
    [][ \A u \in UserIds, tok \in Codes :
          (VerifyOtp(u, tok) /\ result'.outcome = "ok") =>
              ~FindOtpByUserId(otps, u).verified
      ]_vars

\* C10: against an unexpired Otp, verifyOtp accepts the code of the Otp's secret
\* for counter c when the current counter is c-1, c or c+1, and throws
\* OtpInvalid when the counters differ by 2 or more.
C10_ToleranceWindow ==
    [][ \A u \in UserIds, tok \in Codes :
          (/\ VerifyOtp(u, tok)
           /\ FindUserById(users, u) # Null
           /\ FindOtpByUserId(otps, u) # Null
           /\ ~IsExpired(FindOtpByUserId(otps, u), now)
           /\ tok.secret = FindOtpByUserId(otps, u).secret) =>
              IF tok.counter \in (Counter(now) - 1)..(Counter(now) + 1)
              THEN result'.outcome = "ok"
              ELSE result'.outcome = "OtpInvalid"
      ]_vars

\* C11: for an existing user with a stored Otp, a verifyOtp made after the Otp's
\* expiresAt throws OtpExpired whatever code is presented, the code of the
\* current time step included, and writes nothing: the Otp store and the
\* verified flag stay as they were.
C11_ExpiredWhateverTheCode ==
    \A u \in UserIds :
        (/\ FindUserById(users, u) # Null
         /\ FindOtpByUserId(otps, u) # Null
         /\ now > FindOtpByUserId(otps, u).expiresAt) =>
            \A tok \in Codes :
                /\ VerifyOtpResult(users, otps, u, tok, now).outcome = "OtpExpired"
                /\ VerifyOtpResult(users, otps, u, tok, now).written = {}
                /\ VerifyOtpStore(users, otps, u, tok, now) = otps

\* a verifyOtp threw OtpExpired on an Otp past its expiry; every code, the one
\* of the current step too, is presented in that state
C11_Witness ==
    /\ result.op = "verifyOtp"
    /\ result.outcome = "OtpExpired"
    /\ FindOtpByUserId(otps, result.arg.userId) # Null
    /\ now > FindOtpByUserId(otps, result.arg.userId).expiresAt
    /\ ~FindOtpByUserId(otps, result.arg.userId).verified
    /\ Totp(FindOtpByUserId(otps, result.arg.userId).secret, now) \in Codes

\* the scenario of C12: the user's latest Otp was generated at t = 0
ScenarioOtp(u) ==
    /\ FindUserById(users, u) # Null
    /\ FindOtpByUserId(otps, u) # Null
    /\ FindOtpByUserId(otps, u).createdAt = 0

\* the code generateOtp returned for that Otp, computed over counter 0
ScenarioCode(u) == GenerateOtpCode(FindOtpByUserId(otps, u).secret, 0)

\* C12 as stated: with step 30 s, 6 digits and an expiration of 5 minutes, the
\* code generateOtp returned at t = 0 presented to verifyOtp at t = 200 s throws
\* OtpExpired.
C12_ExpiredAt200 ==
    \A u \in UserIds :
        (now = 200 /\ ScenarioOtp(u)) =>
            VerifyOtpResult(users, otps, u, ScenarioCode(u), now).outcome = "OtpExpired"

\* C12 amended: the Otp generated at t = 0 expires at t = 300 s, so the code
\* presented at t = 200 s throws OtpInvalid (its counter is 0, the current one
\* 6) and the Otp is left unverified; presented after t = 300 s it throws
\* OtpExpired.
C12_InvalidAt200 ==
    \A u \in UserIds :
        ScenarioOtp(u) =>
            /\ ScenarioCode(u).counter = 0
            /\ FindOtpByUserId(otps, u).expiresAt = 300
            /\ now = 200 =>
                  /\ VerifyOtpResult(users, otps, u, ScenarioCode(u), now).outcome = "OtpInvalid"
                  /\ VerifyOtpStore(users, otps, u, ScenarioCode(u), now) = otps
            /\ now > 300 =>
                  /\ VerifyOtpResult(users, otps, u, ScenarioCode(u), now).outcome = "OtpExpired"
                  /\ VerifyOtpStore(users, otps, u, ScenarioCode(u), now) = otps

\* a verifyOtp at t = 200 s threw OtpInvalid against an Otp generated at t = 0
C12_Witness ==
    /\ now = 200
    /\ result.op = "verifyOtp"
    /\ result.outcome = "OtpInvalid"
    /\ FindOtpByUserId(otps, result.arg.userId) # Null
    /\ FindOtpByUserId(otps, result.arg.userId).createdAt = 0
    /\ FindOtpByUserId(otps, result.arg.userId).expiresAt = 300
    /\ Counter(now) = 6

----------------------------------------------------------------------------
(* Properties of the two-factor enrollment                                *)

NotEnabled == "Two-factor authentication is not enabled for this user"

TwoFactorOutcome(store, u, tok, t) == VerifyTwoFactorTokenResult(store, u, tok, t).outcome

\* C13: once setupTwoFactorAuth(u) has stored a secret, verifyTwoFactorToken(u,
\* code) with the current code of that secret succeeds; after
\* disableTwoFactorAuth(u) every verifyTwoFactorToken(u, code) throws the
\* AuthenticationException "not enabled" (never OtpInvalid), and stays so until
\* setupTwoFactorAuth(u) is called again.
C13_SetupVerifyDisable ==
    /\ [](\A u \in UserIds :
            FindUserById(users, u) # Null =>
                IF FindUserById(users, u).otpEnabled
                THEN TwoFactorOutcome(users, u, Totp(FindUserById(users, u).otpSecret, now), now)
                        = "ok"
                ELSE \A tok \in Codes : TwoFactorOutcome(users, u, tok, now) = NotEnabled)
    /\ [][ \A u \in UserIds :
             /\ (SetupTwoFactorAuth(u) /\ result'.outcome = "ok") =>
                    TwoFactorOutcome(users', u, Totp(result'.value.secret, now'), now') = "ok"
             /\ (DisableTwoFactorAuth(u) /\ result'.outcome = "ok") =>
                    \A tok \in Codes : TwoFactorOutcome(users', u, tok, now') = NotEnabled
             /\ (/\ \E tok \in Codes : TwoFactorOutcome(users, u, tok, now) = NotEnabled
                 /\ \E tok \in Codes : TwoFactorOutcome(users', u, tok, now') # NotEnabled)
                    => SetupTwoFactorAuth(u)
         ]_vars

\* verifyTwoFactorToken threw "not enabled" for the only registered user, who
\* had set two-factor up (a secret was drawn) and disabled it since
C13_Witness ==
    /\ result.op = "verifyTwoFactorToken"
    /\ result.outcome = NotEnabled
    /\ Cardinality(users) = 1
    /\ nextSecret = 2
    /\ \E u \in users : u.id = result.arg.userId /\ ~u.otpEnabled /\ u.otpSecret = 0

\* C20: for every user otpEnabled holds exactly when an otpSecret is stored;
\* verifyTwoFactorToken never modifies the user; every successful
\* setupTwoFactorAuth stores the secret it returns in place of the previous one,
\* so that afterwards only codes of that most recent secret verify.
C20_TwoFactorConsistency ==
    /\ [](\A user \in users : user.otpEnabled <=> user.otpSecret # 0)
    /\ [][ \A u \in UserIds :
             /\ (\E tok \in Codes : VerifyTwoFactorToken(u, tok)) => users' = users
             /\ (SetupTwoFactorAuth(u) /\ result'.outcome = "ok") =>
                    /\ FindUserById(users', u).otpSecret = result'.value.secret
                    /\ FindUserById(users', u).otpSecret # FindUserById(users, u).otpSecret
                    /\ \A tok \in Codes :
                          TwoFactorOutcome(users', u, tok, now') = "ok" =>
                              tok = Totp(result'.value.secret, now')
         ]_vars

\* the only registered user set two-factor up twice and a code of the second
\* secret has just verified
C20_Witness ==
    /\ result.op = "verifyTwoFactorToken"
    /\ result.outcome = "ok"
    /\ Cardinality(users) = 1
    /\ nextSecret = 3
    /\ \E u \in users : u.id = result.arg.userId /\ u.otpEnabled /\ u.otpSecret = 2

----------------------------------------------------------------------------
(* Properties of a wrong one-time code                                    *)

\* the times at which a later verifyOtp is looked at: now, one clock step on,
\* and the last second before the Otp expires
LaterTimes(otp) == {t \in {now, now + OtpTickSeconds, otp.expiresAt} : t <= otp.expiresAt}

\* C17: while the latest Otp of an existing user is not expired, verifyOtp with
\* a code that does not match throws OtpInvalid, writes nothing (the Otp store,
\* and so the verified flag, is as before), and on that unchanged store a later
\* verifyOtp with the code then current still succeeds as long as the Otp has
\* not expired.
C17_WrongCodeNoWrite ==
    \A u \in UserIds :
        (/\ FindUserById(users, u) # Null
         /\ FindOtpByUserId(otps, u) # Null
         /\ ~IsExpired(FindOtpByUserId(otps, u), now)) =>
            /\ \A tok \in Codes \ {Totp(FindOtpByUserId(otps, u).secret, now)} :
                  /\ VerifyOtpResult(users, otps, u, tok, now).outcome = "OtpInvalid"
                  /\ VerifyOtpResult(users, otps, u, tok, now).written = {}
                  /\ VerifyOtpStore(users, otps, u, tok, now) = otps
            /\ \A t \in LaterTimes(FindOtpByUserId(otps, u)) :
                  VerifyOtpResult(users, otps, u,
                                  Totp(FindOtpByUserId(otps, u).secret, t), t).outcome = "ok"

\* verifyOtp threw OtpInvalid in the very second the Otp was generated (so the
\* code presented was not the generated one) and the Otp is still unverified
C17_Witness ==
    /\ result.op = "verifyOtp"
    /\ result.outcome = "OtpInvalid"
    /\ FindOtpByUserId(otps, result.arg.userId) # Null
    /\ FindOtpByUserId(otps, result.arg.userId).createdAt = now
    /\ ~FindOtpByUserId(otps, result.arg.userId).verified
    /\ Cardinality(Codes \ {Totp(FindOtpByUserId(otps, result.arg.userId).secret, now)}) > 0

----------------------------------------------------------------------------
(* Properties of tokens issued for a user id that has no user             *)

\* C19: createRefreshToken does not look the user up: for a user id with no
\* user it never throws EntityNotFound, and with a token value nobody holds it
\* succeeds and the stored token validates to a record for that user id;
\* revokeAllRefreshTokens for such a user id throws EntityNotFound and leaves
\* the store, that token included, as it was.
C19_NoUserCheckOnCreate ==
    [][ \A u \in UserIds :
          FindUserById(users, u) = Null =>
              /\ \A t \in TokenValues :
                    CreateRefreshToken(u, t) =>
                        /\ result'.outcome # "EntityNotFound"
                        /\ FindByToken(refreshTokens, t) = Null =>
                              /\ result'.outcome = "ok"
                              /\ Outcome(refreshTokens', t, now') = "ok"
                              /\ ValidateRefreshTokenResult(refreshTokens', t, now').value.userId = u
              /\ RevokeAllRefreshTokens(u) =>
                    /\ result'.outcome = "EntityNotFound"
                    /\ refreshTokens' = refreshTokens
      ]_vars

\* no user is stored, a token is held under a user id, it validates, and
\* revokeAllRefreshTokens for that user id has just thrown EntityNotFound
C19_Witness ==
    /\ users = {}
    /\ result.op = "revokeAllRefreshTokens"
    /\ result.outcome = "EntityNotFound"
    /\ \E r \in TokensOf(refreshTokens, result.arg.userId) :
          Outcome(refreshTokens, r.token, now) = "ok"

----------------------------------------------------------------------------
(* Properties of the permission catalog                                   *)

\* the five fields a caller gave an entity
DataOf(permission) ==
    <<permission.id, permission.name, permission.description, permission.resource,
      permission.action>>

\* C14: delete(id) never throws: with a row of that id it returns true and the
\* row is gone, the other rows kept; with no such row it returns false and the
\* table is as before; a second delete of the same id then returns false.
C14_DeleteNeverThrows ==
    [][ \A id \in PermIds :
          PermissionDelete(id) =>
              /\ result'.outcome = "ok"
              /\ IF \E r \in permissions : r.id = id
                 THEN /\ result'.value = True
                      /\ permissions' = {r \in permissions : r.id # id}
                      /\ permissions' # permissions
                 ELSE /\ result'.value = False
                      /\ permissions' = permissions
              /\ DeleteResult(permissions', id).value = False
              /\ DeleteResult(permissions', id).outcome = "ok"
              /\ DeleteStore(permissions', id) = permissions'
      ]_vars

\* delete has just returned false for an id that has no row while another
\* permission is stored
C14_Witness ==
    /\ result.op = "delete"
    /\ result.outcome = "ok"
    /\ result.value = False
    /\ FindUniqueById(permissions, result.arg.id) = Null
    /\ permissions # {}

\* C15: no two stored permissions share a name (nor an id); a create or update
\* that would duplicate a name throws and leaves the table unchanged; nothing
\* keeps two permissions from having the same (resource, action).
C15_UniqueName ==
    /\ [](\A r1 \in permissions, r2 \in permissions :
            (r1.name = r2.name \/ r1.id = r2.id) => r1 = r2)
    /\ [][ \A p \in PermissionInputs :
             /\ (PermissionCreate(p) /\ \E r \in permissions : r.name = p.name) =>
                    /\ result'.outcome = "UniqueConstraintViolation"
                    /\ permissions' = permissions
             /\ (PermissionUpdate(p) /\ \E r \in permissions : r.name = p.name /\ r.id # p.id) =>
                    /\ result'.outcome # "ok"
                    /\ permissions' = permissions
             /\ ((PermissionCreate(p) \/ PermissionUpdate(p)) /\ result'.outcome # "ok") =>
                    permissions' = permissions
             /\ (PermissionCreate(p) /\ ~CreateConflict(permissions, p)) =>
                    /\ result'.outcome = "ok"
                    /\ permissions' = permissions \cup {RowOf(p, now, now)}
         ]_vars

\* an update was refused for a name another row holds while two permissions
\* with the same resource and action are stored
C15_Witness ==
    /\ result.op = "update"
    /\ result.outcome = "UniqueConstraintViolation"
    /\ \E r \in permissions :
          r.name = result.arg.permission.name /\ r.id # result.arg.permission.id
    /\ \E r1 \in permissions, r2 \in permissions :
          /\ r1 # r2
          /\ r1.resource = r2.resource
          /\ r1.action = r2.action

\* C16: after a successful create(p), findByName(p.name) and findById(p.id)
\* return an entity with p's id, name, description, resource and action; what
\* findById(id) returns changes only in a create, update or delete of that id;
\* findById and findByName return null, without throwing, for a key with no row.
C16_RoundTrip ==
    /\ [](/\ \A id \in PermIds :
               /\ FindByIdResult(permissions, id).outcome = "ok"
               /\ (~\E r \in permissions : r.id = id) =>
                      FindByIdResult(permissions, id).value = Null
          /\ \A name \in PermNames :
               /\ FindByNameResult(permissions, name).outcome = "ok"
               /\ (~\E r \in permissions : r.name = name) =>
                      FindByNameResult(permissions, name).value = Null)
    /\ [][ /\ \A p \in PermissionInputs :
                (PermissionCreate(p) /\ result'.outcome = "ok") =>
                    /\ DataOf(result'.value) = DataOf(p)
                    /\ DataOf(FindByNameResult(permissions', p.name).value) = DataOf(p)
                    /\ DataOf(FindByIdResult(permissions', p.id).value) = DataOf(p)
           /\ \A id \in PermIds :
                FindByIdResult(permissions', id).value # FindByIdResult(permissions, id).value =>
                    \/ PermissionDelete(id)
                    \/ \E p \in PermissionInputs :
                          p.id = id /\ (PermissionCreate(p) \/ PermissionUpdate(p))
         ]_vars

\* findByName has just returned the entity of a stored row while findById
\* misses for another id
C16_Witness ==
    /\ result.op = "findByName"
    /\ result.outcome = "ok"
    /\ result.value # Null
    /\ result.value.id \in PermIds
    /\ RowOf(result.value, result.value.createdAt, result.value.updatedAt) \in permissions
    /\ \E id \in PermIds : FindByIdResult(permissions, id).value = Null

----------------------------------------------------------------------------
(* Properties of overlapping generateOtp calls                            *)

\* C18 as stated: when a generateOtp(u) returns code C2 and the handler that
\* completed before it was a generateOtp(u) that returned C1 of another secret,
\* all of u's Otps being unexpired, a verifyOtp(u, C2) made then succeeds and a
\* verifyOtp(u, C1) throws OtpInvalid.
C18_LastReturnedWins ==
    [][ \A c \in Callers :
          (/\ ConcGenerateReturn(c)
           /\ result.op = "generateOtp"
           /\ result.outcome = "ok"
           /\ result.arg.userId = calls[c].userId
           /\ result.value.secret # calls[c].secret
           /\ \A i \in OtpsOf(otps, calls[c].userId) : ~IsExpired(otps[i], now)) =>
              /\ VerifyOtpResult(users', otps', calls[c].userId, result'.value, now').outcome
                    = "ok"
              /\ VerifyOtpResult(users', otps', calls[c].userId, result.value, now').outcome
                    = "OtpInvalid"
      ]_vars

\* C18 amended: the Otp a generateOtp call saves becomes the user's live one
\* (last write wins); when the call returns, its code verifies exactly if its
\* Otp is still the one created last for the user, and otherwise throws
\* OtpInvalid while the current code of the Otp created last verifies; codes of
\* any other secret throw OtpInvalid.
C18_LastCreatedWins ==
    [][ \A c \in Callers :
          /\ \A u \in UserIds :
                (ConcGenerateCreate(c, u) /\ calls'[c] # Null) =>
                    FindOtpByUserId(otps', u) = calls'[c].otp
          /\ (/\ ConcGenerateReturn(c)
              /\ ~IsExpired(FindOtpByUserId(otps, calls[c].userId), now)) =>
                LET u == calls[c].userId
                    last == FindOtpByUserId(otps, calls[c].userId)
                IN  /\ last.secret = calls[c].secret =>
                          VerifyOtpResult(users', otps', u, result'.value, now').outcome = "ok"
                    /\ last.secret # calls[c].secret =>
                          /\ VerifyOtpResult(users', otps', u, result'.value, now').outcome
                                = "OtpInvalid"
                          /\ VerifyOtpResult(users', otps', u, Totp(last.secret, now'),
                                             now').outcome = "ok"
                    /\ \A tok \in Codes :
                          tok.secret # last.secret =>
                              VerifyOtpResult(users', otps', u, tok, now').outcome
                                  = "OtpInvalid"
      ]_vars

\* both overlapping generateOtp calls have returned, and the one that returned
\* last is not the one whose Otp was created last
C18_Witness ==
    /\ \A c \in Callers : calls[c] = Null
    /\ result.op = "generateOtp"
    /\ result.outcome = "ok"
    /\ FindOtpByUserId(otps, result.arg.userId) # Null
    /\ ~IsExpired(FindOtpByUserId(otps, result.arg.userId), now)
    /\ FindOtpByUserId(otps, result.arg.userId).secret # result.value.secret
    /\ \E i \in OtpsOf(otps, result.arg.userId) : otps[i].secret = result.value.secret

====
